---- MODULE Spec2Model ----
(***************************************************************************)
(* The task-completion monitor of static/js/app.js (the App object):       *)
(* startTaskStream, the EventSource handlers, the reconnect back-off, the  *)
(* fallback probe (startRobustMonitoring), periodic status polling and the *)
(* manual status check.                                                    *)
(*                                                                         *)
(* JavaScript runs every handler to completion, so one action is one       *)
(* handler run (a channel callback, a timer callback, or the continuation  *)
(* of an async function after its await).  The functions of App are        *)
(* operators from an App snapshot (a record) to the snapshot after the     *)
(* call; an action commits the snapshot its handler returns.               *)
(*                                                                         *)
(* Time is in milliseconds.  Timers hold the time left until they are due; *)
(* lastEventAge is Date.now() - this.lastEventTime.  The clock advances to *)
(* the next instant at which something can change (a timer falls due, the  *)
(* rapid-failure window ends), and a due timer runs before it advances.    *)
(***************************************************************************)
EXTENDS Integers, FiniteSets, Bags, TLC

\* ------------------------------------------------------------------ bounds
MaxChannels == 2    \* EventSource objects open at the same time
MaxTimers == 2      \* reconnect timers pending at the same time
MaxPending == 2     \* fetch requests awaiting their response
MaxModals == 2      \* the modal counters saturate here
MaxManualChecks == 1 \* status checks the user asks for in one session
Horizon == 32000    \* the session clock saturates here

\* ------------------------------------------------------- program constants
MaxReconnectAttempts == 10      \* this.maxReconnectAttempts
WatchdogDelayMs == 30000        \* setTimeout(..., 30000) in startTaskStream
RapidFailureThreshold == 3      \* this.reconnectAttempts >= 3
RapidFailureWindowMs == 5000    \* (Date.now() - this.lastEventTime) < 5000
BackoffCapSeconds == 30         \* Math.min(Math.pow(2, n), 30)
PollIntervalMs == 30000         \* setInterval(..., 30000)
RedirectDelayMs == 2000         \* setTimeout(() => location.href = '/login', 2000)

\* lastEventAge saturates at the end of the rapid-failure window, the only
\* value the program compares it with
AgeCap == RapidFailureWindowMs

Null == "null"                  \* null / undefined in a field holding a handle
Handle == "handle"              \* a timer id or an EventSource in such a field
TaskIds == {"t1"}                \* task_run_id values

VARIABLES
    currentTaskId,       \* this.currentTaskId (Null before startTaskStream)
    reconnectAttempts,   \* this.reconnectAttempts
    isTaskComplete,      \* this.isTaskComplete
    lastEventAge,        \* Date.now() - this.lastEventTime
    currentEventSource,  \* this.currentEventSource: Null or Handle
    reconnectTimeout,    \* this._reconnectTimeout: Null or Handle
    statusCheckInterval, \* this.statusCheckInterval: Null or Handle
    sources,             \* bag of the EventSources not closed: [task, held]
    timers,              \* bag of the pending timers: [kind, task, rem, held]
    pending,             \* bag of awaited fetches: [fn, task]
    remote,              \* status of the remote task
    successModals,       \* calls of showSuccessModal so far
    errorModals,         \* calls of showErrorModal so far
    unloaded,            \* the page navigated away
    manualChecks,        \* status checks the user has asked for
    clock,               \* time since startTaskStream
    terminalDelivered,   \* a task.status event with is_complete has been handled
    cancelled,           \* cleanup() has been called
    staleReconnect,      \* a reconnect timer fell due after cleanup()
    pollTerminal,        \* a periodic status poll has observed a terminal status
    ui                   \* the UI calls of the handler that ran last

vars == <<currentTaskId, reconnectAttempts, isTaskComplete, lastEventAge,
          currentEventSource, reconnectTimeout, statusCheckInterval, sources,
          timers, pending, remote, successModals, errorModals, unloaded,
          manualChecks, clock, terminalDelivered, cancelled, staleReconnect,
          pollTerminal, ui>>

\* The App object and its environment as one snapshot.
App ==
    [currentTaskId |-> currentTaskId, reconnectAttempts |-> reconnectAttempts,
     isTaskComplete |-> isTaskComplete, lastEventAge |-> lastEventAge,
     currentEventSource |-> currentEventSource,
     reconnectTimeout |-> reconnectTimeout,
     statusCheckInterval |-> statusCheckInterval, sources |-> sources,
     timers |-> timers, pending |-> pending, remote |-> remote,
     successModals |-> successModals, errorModals |-> errorModals,
     unloaded |-> unloaded, manualChecks |-> manualChecks,
     clock |-> clock, terminalDelivered |-> terminalDelivered,
     cancelled |-> cancelled, staleReconnect |-> staleReconnect,
     pollTerminal |-> pollTerminal, ui |-> {}]

Min(a, b) == IF a < b THEN a ELSE b

RECURSIVE Pow2(_)
Pow2(n) == IF n = 0 THEN 1 ELSE 2 * Pow2(n - 1)

\* ------------------------------------------------------------ UI projection
Ui(s, call) == [s EXCEPT !.ui = @ \cup {call}]

\* ------------------------------------------------------ browser primitives
\* Timers and EventSources are kept without their ids: `held` marks the one
\* the App field refers to (this._reconnectTimeout for a reconnect timer,
\* this.statusCheckInterval for an interval, this.currentEventSource for an
\* EventSource).  A field may outlive what it refers to.
One(x) == SetToBag({x})

HeldIn(bag, kind) == {x \in BagToSet(bag) : x.kind = kind /\ x.held}

\* the bag with the held element of `kind` no longer held (the field is reassigned)
Release(bag, kind) ==
    LET h == HeldIn(bag, kind)
    IN  IF h = {} THEN bag
        ELSE LET x == CHOOSE y \in h : TRUE
             IN  (bag (-) One(x)) (+) One([x EXCEPT !.held = FALSE])

\* setTimeout / setInterval, the id assigned to the field when held
SetTimer(s, kind, task, delay, held) ==
    [s EXCEPT !.timers = (IF held THEN Release(@, kind) ELSE @)
                         (+) One([kind |-> kind, task |-> task, rem |-> delay,
                                  held |-> held])]

\* clearTimeout / clearInterval of the id held in the field for `kind`
ClearTimer(s, kind) ==
    LET h == HeldIn(s.timers, kind)
    IN  IF h = {} THEN s
        ELSE [s EXCEPT !.timers = @ (-) One(CHOOSE y \in h : TRUE)]

\* a timer callback starts: a timeout is spent, an interval is due again later
Fired(s, t) ==
    [s EXCEPT !.timers = IF t.kind = "interval"
                         THEN (@ (-) One(t)) (+) One([t EXCEPT !.rem = PollIntervalMs])
                         ELSE @ (-) One(t)]

\* new EventSource(url), assigned to this.currentEventSource
NewSource(s, task) ==
    [s EXCEPT !.sources = Release(@, "source")
                          (+) One([kind |-> "source", task |-> task, held |-> TRUE]),
              !.currentEventSource = Handle]

\* this.currentEventSource.close()
CloseSource(s) ==
    LET h == HeldIn(s.sources, "source")
    IN  IF h = {} THEN s
        ELSE [s EXCEPT !.sources = @ (-) One(CHOOSE y \in h : TRUE)]

\* fetch(...) awaited by function fn
Fetch(s, fn, task) ==
    [s EXCEPT !.pending = @ (+) One([fn |-> fn, task |-> task])]

\* the response arrives and the function resumes after its await
Resume(s, fn, task) ==
    [s EXCEPT !.pending = @ (-) One([fn |-> fn, task |-> task])]


\* ------------------------------------------------------------ App functions
\* showSuccessModal(response)
ShowSuccessModal(s) ==
    LET s1 == [s EXCEPT !.isTaskComplete = TRUE]
        s2 == IF s1.statusCheckInterval # Null
              THEN [ClearTimer(s1, "interval") EXCEPT !.statusCheckInterval = Null]
              ELSE s1
        s3 == IF s2.currentEventSource # Null
              THEN [CloseSource(s2) EXCEPT !.currentEventSource = Null]
              ELSE s2
        s4 == IF s3.reconnectTimeout # Null
              THEN [ClearTimer(s3, "reconnect") EXCEPT !.reconnectTimeout = Null]
              ELSE s3
        s5 == Ui(Ui(s4, "addSSEEvent"), "showSuccessModal")
    IN  [s5 EXCEPT !.successModals = Min(@ + 1, MaxModals)]

\* showErrorModal(message)
ShowErrorModal(s) ==
    [Ui(s, "showErrorModal") EXCEPT !.errorModals = Min(@ + 1, MaxModals)]

\* stopPollingFallback(): this.pollingInterval is never assigned
StopPollingFallback(s) == s

\* cleanupConnections()
CleanupConnections(s) ==
    LET s1 == IF s.currentEventSource # Null
              THEN [CloseSource(s) EXCEPT !.currentEventSource = Null]
              ELSE s
    IN  StopPollingFallback(s1)

\* a faulty variant of Cleanup: isTaskComplete is left as it was
CleanupKeepsMonitoring(s) ==
    CleanupConnections([s EXCEPT !.cancelled = TRUE])

\* cleanup()
Cleanup(s) ==
    CleanupConnections([s EXCEPT !.isTaskComplete = TRUE, !.cancelled = TRUE])

\* a faulty variant of ConnectToStreamRobust: opening the channel counts as an
\* event received
ConnectToStreamRobustStampsTime(s, task) ==
    IF s.isTaskComplete THEN s
    ELSE [NewSource(s, task) EXCEPT !.lastEventAge = 0]

\* connectToStreamRobust(taskRunId)
ConnectToStreamRobust(s, task) ==
    IF s.isTaskComplete THEN s
    ELSE NewSource(s, task)

\* a faulty variant of WaitTime: the delay is not capped
WaitTimeUncapped(n) == Pow2(n) * 1000

\* the delay of the reconnect after the n-th error, in ms
WaitTime(n) == Min(Pow2(n), BackoffCapSeconds) * 1000

\* a faulty variant of StartRobustMonitoring: the stream side is torn down
\* before the probe
StartRobustMonitoringClosesStream(s, task) ==
    IF s.isTaskComplete THEN s
    ELSE Fetch(Ui(Ui([ClearTimer(CleanupConnections(s), "reconnect")
                         EXCEPT !.reconnectTimeout = Null],
                     "updateConnectionStatus"), "addSSEEvent"),
               "startRobustMonitoring", task)

\* startRobustMonitoring(taskRunId), up to its await
StartRobustMonitoring(s, task) ==
    IF s.isTaskComplete THEN s
    ELSE Fetch(Ui(Ui(s, "updateConnectionStatus"), "addSSEEvent"),
               "startRobustMonitoring", task)

\* a faulty variant of RapidFailure: the window test reversed
RapidFailureOutsideWindow(s) ==
    /\ s.reconnectAttempts >= RapidFailureThreshold
    /\ s.lastEventAge > RapidFailureWindowMs

\* the rapid-failure test of handleConnectionError
RapidFailure(s) ==
    /\ s.reconnectAttempts >= RapidFailureThreshold
    /\ s.lastEventAge < RapidFailureWindowMs

\* a faulty variant of MayReconnect: the budget one attempt short
MayReconnectBelowMax(s) == s.reconnectAttempts < MaxReconnectAttempts

\* the attempt budget of handleConnectionError
MayReconnect(s) == s.reconnectAttempts <= MaxReconnectAttempts

\* a faulty variant of HandleConnectionError: a reconnect is scheduled even
\* when the error is handed to the fallback monitor
HandleConnectionErrorAlwaysReconnects(s, task) ==
    IF s.isTaskComplete THEN s
    ELSE LET s1 == [s EXCEPT !.reconnectAttempts = @ + 1]
             s2 == IF s1.currentEventSource # Null
                   THEN [CloseSource(s1) EXCEPT !.currentEventSource = Null]
                   ELSE s1
             s3 == [SetTimer(Ui(Ui(s2, "updateConnectionStatus"), "addSSEEvent"),
                             "reconnect", task, WaitTime(s2.reconnectAttempts), TRUE)
                       EXCEPT !.reconnectTimeout = Handle]
         IN  IF RapidFailure(s2) \/ ~MayReconnect(s2)
             THEN StartRobustMonitoring(s3, task)
             ELSE s3

\* handleConnectionError(taskRunId)
HandleConnectionError(s, task) ==
    IF s.isTaskComplete THEN s
    ELSE LET s1 == [s EXCEPT !.reconnectAttempts = @ + 1]
             s2 == IF s1.currentEventSource # Null
                   THEN [CloseSource(s1) EXCEPT !.currentEventSource = Null]
                   ELSE s1
         IN  IF RapidFailure(s2) THEN StartRobustMonitoring(s2, task)
             ELSE IF MayReconnect(s2)
                  THEN LET s3 == Ui(Ui(s2, "updateConnectionStatus"), "addSSEEvent")
                       IN  [SetTimer(s3, "reconnect", task,
                                     WaitTime(s3.reconnectAttempts), TRUE)
                               EXCEPT !.reconnectTimeout = Handle]
                  ELSE StartRobustMonitoring(Ui(s2, "addSSEEvent"), task)

\* a faulty variant of HandleTaskCompletion: the completed status event shows
\* the success outcome itself
HandleTaskCompletionShowsSuccess(s, status, task) ==
    LET s1 == CleanupConnections([s EXCEPT !.isTaskComplete = TRUE])
        s2 == Ui(s1, "updateStreamingProgress")
    IN  IF status = "completed"
        THEN ShowSuccessModal(s2)
        ELSE ShowErrorModal(s2)

\* handleTaskCompletion(data, taskRunId), up to its await
HandleTaskCompletion(s, status, task) ==
    LET s1 == CleanupConnections([s EXCEPT !.isTaskComplete = TRUE])
        s2 == Ui(s1, "updateStreamingProgress")
    IN  IF status = "completed"
        THEN Fetch(s2, "handleTaskCompletion", task)
        ELSE ShowErrorModal(s2)

\* a faulty variant of HandleTaskStatusEvent: for a completed task the request
\* is awaited first, with isTaskComplete not yet set and the channel open
HandleTaskStatusEventAwaitsFirst(s, ev, task) ==
    LET s1 == Ui(s, "updateStreamingProgress")
    IN  IF ev.is_complete
        THEN IF ev.status = "completed"
             THEN Fetch(s1, "handleTaskCompletion", task)
             ELSE HandleTaskCompletion(s1, ev.status, task)
        ELSE s1

\* handleTaskStatusEvent(eventData, taskRunId)
HandleTaskStatusEvent(s, ev, task) ==
    LET s1 == Ui(s, "updateStreamingProgress")
    IN  IF ev.is_complete THEN HandleTaskCompletion(s1, ev.status, task) ELSE s1

\* handleTaskErrorEvent(eventData, taskRunId); message.includes throws when
\* the event carries no message, and onmessage catches it
HandleTaskErrorEvent(s, ev, task) ==
    IF ev.message = "none" THEN Ui(s, "console.error")
    ELSE IF ev.message = "auth"
         THEN LET s1 == ShowErrorModal(s)
              IN  IF \E t \in BagToSet(s1.timers) : t.kind = "redirect"
                  THEN s1   \* the page is gone before a later redirect is due
                  ELSE SetTimer(s1, "redirect", task, RedirectDelayMs, FALSE)
         ELSE HandleConnectionError(Ui(s, "updateStreamingProgress"), task)

\* a faulty variant of HandleRobustEvent: the attempt count is not reset
HandleRobustEventKeepsAttempts(s, ev, task) ==
    CASE ev.type = "task.status" -> HandleTaskStatusEvent(s, ev, task)
      [] ev.type = "task.progress" -> Ui(s, "updateStreamingProgress")
      [] ev.type = "task.log" -> Ui(s, "updateStreamingProgress")
      [] ev.type = "error" -> HandleTaskErrorEvent(s, ev, task)
      [] OTHER -> Ui(s, "updateStreamingProgress")

\* handleRobustEvent(eventData, taskRunId)
HandleRobustEvent(s, ev, task) ==
    LET s1 == [s EXCEPT !.reconnectAttempts = 0]
    IN  CASE ev.type = "task.status" -> HandleTaskStatusEvent(s1, ev, task)
          [] ev.type = "task.progress" -> Ui(s1, "updateStreamingProgress")
          [] ev.type = "task.log" -> Ui(s1, "updateStreamingProgress")
          [] ev.type = "error" -> HandleTaskErrorEvent(s1, ev, task)
          [] OTHER -> Ui(s1, "updateStreamingProgress")

\* a faulty variant of OnMessageHandler: lastEventTime is set before the
\* payload is parsed
OnMessageHandlerStampsFirst(s, ev, task) ==
    IF ev.type = "malformed" THEN Ui([s EXCEPT !.lastEventAge = 0], "console.error")
    ELSE HandleRobustEvent([s EXCEPT !.lastEventAge = 0], ev, task)

\* currentEventSource.onmessage; a payload JSON.parse rejects is dropped
OnMessageHandler(s, ev, task) ==
    IF ev.type = "malformed" THEN Ui(s, "console.error")
    ELSE HandleRobustEvent([s EXCEPT !.lastEventAge = 0], ev, task)

\* a faulty variant of OnErrorHandler: the error is handled whether or not the
\* session is complete
OnErrorHandlerUnguarded(s, task) ==
    LET r == HandleConnectionError([s EXCEPT !.isTaskComplete = FALSE], task)
    IN  [r EXCEPT !.isTaskComplete = s.isTaskComplete]

\* currentEventSource.onerror, raised by EventSource `id`; the handler reads
\* this.currentEventSource.readyState first, which throws when the field is null
OnErrorHandler(s, task) ==
    IF s.currentEventSource = Null THEN Ui(s, "TypeError")
    ELSE IF ~s.isTaskComplete THEN HandleConnectionError(s, task)
         ELSE s

\* a faulty variant of StartPeriodicStatusCheck: the interval registered before
\* is not cancelled
StartPeriodicStatusCheckKeepsOld(s, task) ==
    [SetTimer(s, "interval", task, PollIntervalMs, TRUE)
        EXCEPT !.statusCheckInterval = Handle]

\* startPeriodicStatusCheck(taskRunId)
StartPeriodicStatusCheck(s, task) ==
    LET s1 == IF s.statusCheckInterval # Null
              THEN ClearTimer(s, "interval")
              ELSE s
    IN  [SetTimer(s1, "interval", task, PollIntervalMs, TRUE)
            EXCEPT !.statusCheckInterval = Handle]

\* showConnectionLostUI(taskRunId)
ShowConnectionLostUI(s, task) ==
    StartPeriodicStatusCheck(Ui(s, "addSSEEvent"), task)

\* startRobustMonitoring after its await; res is the outcome of the fetch
RobustMonitoringResumed(s, res, task) ==
    CASE res = "ok" -> ShowSuccessModal(s)
      [] res = "notok" -> ShowErrorModal(s)
      [] OTHER -> ShowConnectionLostUI(s, task)

\* handleTaskCompletion after its await
TaskCompletionResumed(s, res) ==
    IF res = "ok" THEN ShowSuccessModal(s) ELSE ShowErrorModal(s)

\* manualStatusCheck(taskRunId), up to its first await
ManualStatusCheck(s, task) == Fetch(s, "manualStatusCheck.status", task)

\* a faulty variant of ManualStatusResumed: the attempt count is kept
ManualStatusResumedKeepAttempts(s, res, task) ==
    CASE res = "netfail" -> Ui(s, "addSSEEvent")
      [] res = "completed" -> Fetch(s, "manualStatusCheck.complete", task)
      [] res = "failed" -> ShowErrorModal(s)
      [] OTHER -> ConnectToStreamRobust(Ui(s, "addSSEEvent"), task)

\* manualStatusCheck after the status response (res: a status, or "netfail")
ManualStatusResumed(s, res, task) ==
    CASE res = "netfail" -> Ui(s, "addSSEEvent")
      [] res = "completed" -> Fetch(s, "manualStatusCheck.complete", task)
      [] res = "failed" -> ShowErrorModal(s)
      [] OTHER -> ConnectToStreamRobust(
                      [Ui(s, "addSSEEvent") EXCEPT !.reconnectAttempts = 0], task)

\* manualStatusCheck after the complete-task response
ManualCompleteResumed(s, res) ==
    CASE res = "ok" -> ShowSuccessModal(s)
      [] res = "notok" -> ShowErrorModal(s)
      [] OTHER -> Ui(s, "addSSEEvent")

\* the setInterval callback of startPeriodicStatusCheck, up to its await
StatusCheckTick(s, task) ==
    IF s.isTaskComplete
    THEN ClearTimer(s, "interval")
    ELSE Fetch(s, "statusCheck", task)

\* a faulty variant of StatusCheckResumed: a failed request stops the polling
StatusCheckResumedStopsOnFailure(s, res, task) ==
    CASE res = "netfail" -> Ui(ClearTimer(s, "interval"), "console.log")
      [] res = "running" -> s
      [] res = "completed" ->
            ManualStatusCheck(
               ClearTimer([s EXCEPT !.pollTerminal = TRUE], "interval"), task)
      [] OTHER -> ShowErrorModal(
                     ClearTimer([s EXCEPT !.pollTerminal = TRUE], "interval"))

\* the setInterval callback after the status response; a failed request is
\* logged in the catch block
StatusCheckResumed(s, res, task) ==
    CASE res = "netfail" -> Ui(s, "console.log")
      [] res = "running" -> s
      [] res = "completed" ->
            ManualStatusCheck(
               ClearTimer([s EXCEPT !.pollTerminal = TRUE], "interval"), task)
      [] OTHER -> ShowErrorModal(
                     ClearTimer([s EXCEPT !.pollTerminal = TRUE], "interval"))

\* startTaskStream(taskRunId)
StartTaskStream(s, task) ==
    LET s1 == [s EXCEPT !.currentTaskId = task, !.reconnectAttempts = 0,
                        !.isTaskComplete = FALSE, !.lastEventAge = 0]
        s2 == ConnectToStreamRobust(s1, task)
    IN  SetTimer(s2, "watchdog", task, WatchdogDelayMs, FALSE)

\* a faulty variant of WatchdogCallback: it acts only when no channel is open
WatchdogCallbackStreamDown(s, task) ==
    IF ~s.isTaskComplete /\ s.currentEventSource = Null
    THEN StartRobustMonitoring(s, task)
    ELSE s

\* the setTimeout callback of startTaskStream (the 30 s watchdog)
WatchdogCallback(s, task) ==
    IF ~s.isTaskComplete THEN StartRobustMonitoring(s, task) ELSE s

\* the setTimeout callback of handleConnectionError
ReconnectCallback(s, task) ==
    IF ~s.isTaskComplete THEN ConnectToStreamRobust(s, task) ELSE s

\* the setTimeout callback of handleTaskErrorEvent: window.location.href =
\* '/login' leaves the page, which runs the beforeunload listener (cleanup)
\* and discards the document with its timers, requests and EventSources
RedirectCallback(s) ==
    [Cleanup(s) EXCEPT !.unloaded = TRUE, !.sources = EmptyBag,
                       !.timers = EmptyBag, !.pending = EmptyBag]

\* a faulty variant of OnOpenHandler: opening resets the attempt count
OnOpenHandlerResetsAttempts(s) ==
    [Ui(s, "updateConnectionStatus") EXCEPT !.reconnectAttempts = 0]

\* currentEventSource.onopen
OnOpenHandler(s) == Ui(s, "updateConnectionStatus")

\* ------------------------------------------------------------- environment
Ev(type, status, complete, message) ==
    [type |-> type, status |-> status, is_complete |-> complete, message |-> message]

\* what the server can send on the event stream while the task is in `st`
Events(st) ==
    {Ev("malformed", "", FALSE, ""), Ev("task.progress", "", FALSE, ""),
     Ev("task.log", "", FALSE, ""), Ev("unknown", "", FALSE, ""),
     Ev("task.status", "running", FALSE, ""),
     Ev("error", "", FALSE, "auth"), Ev("error", "", FALSE, "other"),
     Ev("error", "", FALSE, "none")}
    \cup (IF st = "running" THEN {} ELSE {Ev("task.status", st, TRUE, "")})

\* outcomes of POST /monitor-task and POST /complete-task
CompletionResults(st) ==
    {"notok", "netfail"} \cup (IF st = "completed" THEN {"ok"} ELSE {})

\* outcomes of GET /task-status
StatusResults(st) == {st, "netfail"}

\* the number of elements of `bag` of the given kind
Count(bag, kind) ==
    LET of == {x \in BagToSet(bag) : x.kind = kind}
    IN  BagCardinality([x \in of |-> bag[x]])

WithinBounds(s) ==
    /\ BagCardinality(s.sources) <= MaxChannels
    /\ Count(s.timers, "reconnect") <= MaxTimers
    /\ BagCardinality(s.pending) <= MaxPending

\* the state after a handler run
Commit(s) ==
    /\ WithinBounds(s)
    /\ currentTaskId' = s.currentTaskId
    /\ reconnectAttempts' = s.reconnectAttempts
    /\ isTaskComplete' = s.isTaskComplete
    /\ lastEventAge' = s.lastEventAge
    /\ currentEventSource' = s.currentEventSource
    /\ reconnectTimeout' = s.reconnectTimeout
    /\ statusCheckInterval' = s.statusCheckInterval
    /\ sources' = s.sources
    /\ timers' = s.timers
    /\ pending' = s.pending
    /\ remote' = s.remote
    /\ successModals' = s.successModals
    /\ errorModals' = s.errorModals
    /\ unloaded' = s.unloaded
    /\ manualChecks' = s.manualChecks
    /\ clock' = s.clock
    /\ terminalDelivered' = s.terminalDelivered
    /\ cancelled' = s.cancelled
    /\ staleReconnect' = s.staleReconnect
    /\ pollTerminal' = s.pollTerminal
    /\ ui' = s.ui

Init ==
    /\ currentTaskId = Null
    /\ reconnectAttempts = 0
    /\ isTaskComplete = FALSE
    /\ lastEventAge = 0
    /\ currentEventSource = Null
    /\ reconnectTimeout = Null
    /\ statusCheckInterval = Null
    /\ sources = EmptyBag
    /\ timers = EmptyBag
    /\ pending = EmptyBag
    /\ remote = "running"
    /\ successModals = 0
    /\ errorModals = 0
    /\ unloaded = FALSE
    /\ manualChecks = 0
    /\ clock = 0
    /\ terminalDelivered = FALSE
    /\ cancelled = FALSE
    /\ staleReconnect = FALSE
    /\ pollTerminal = FALSE
    /\ ui = {}

Live == currentTaskId # Null /\ ~unloaded

\* generateReport received a task_run_id
Start ==
    /\ currentTaskId = Null /\ ~unloaded
    /\ \E task \in TaskIds : Commit(StartTaskStream(App, task))

OnOpen ==
    /\ Live
    /\ \E c \in BagToSet(sources) : Commit(OnOpenHandler(App))

\* EventSource c delivers the message ev
Deliver(c, ev) ==
    Commit([OnMessageHandler(App, ev, c.task)
               EXCEPT !.terminalDelivered = @ \/ ev.is_complete])

OnMessage ==
    /\ Live
    /\ \E c \in BagToSet(sources) : \E ev \in Events(remote) : Deliver(c, ev)

\* an error of EventSource c; when fatal the browser has closed c (readyState
\* CLOSED), otherwise it keeps reconnecting c on its own
OnError ==
    /\ Live
    /\ \E c \in BagToSet(sources) : \E fatal \in BOOLEAN :
          LET r == OnErrorHandler(App, c.task)
          IN  Commit(IF fatal /\ BagIn(c, r.sources)
                     THEN [r EXCEPT !.sources = @ (-) One(c)]
                     ELSE r)

Due == {t \in BagToSet(timers) : t.rem = 0}

WatchdogFire ==
    /\ Live
    /\ \E t \in Due :
          /\ t.kind = "watchdog"
          /\ Commit(WatchdogCallback(Fired(App, t), t.task))

ReconnectFire ==
    /\ Live
    /\ \E t \in Due :
          /\ t.kind = "reconnect"
          /\ Commit(ReconnectCallback(
                    Fired([App EXCEPT !.staleReconnect = @ \/ cancelled], t), t.task))

RedirectFire ==
    /\ Live
    /\ \E t \in Due :
          /\ t.kind = "redirect"
          /\ Commit(RedirectCallback(Fired(App, t)))

IntervalFire ==
    /\ Live
    /\ \E t \in Due :
          /\ t.kind = "interval"
          /\ Commit(StatusCheckTick(Fired(App, t), t.task))

Awaited(fn) == {q \in BagToSet(pending) : q.fn = fn}

RobustMonitoringResponse ==
    /\ Live
    /\ \E q \in Awaited("startRobustMonitoring") : \E res \in CompletionResults(remote) :
          Commit(RobustMonitoringResumed(Resume(App, q.fn, q.task), res, q.task))

TaskCompletionResponse ==
    /\ Live
    /\ \E q \in Awaited("handleTaskCompletion") : \E res \in CompletionResults(remote) :
          Commit(TaskCompletionResumed(Resume(App, q.fn, q.task), res))

StatusCheckResponse ==
    /\ Live
    /\ \E q \in Awaited("statusCheck") : \E res \in StatusResults(remote) :
          Commit(StatusCheckResumed(Resume(App, q.fn, q.task), res, q.task))

ManualStatusResponse ==
    /\ Live
    /\ \E q \in Awaited("manualStatusCheck.status") : \E res \in StatusResults(remote) :
          Commit(ManualStatusResumed(Resume(App, q.fn, q.task), res, q.task))

ManualCompleteResponse ==
    /\ Live
    /\ \E q \in Awaited("manualStatusCheck.complete") : \E res \in CompletionResults(remote) :
          Commit(ManualCompleteResumed(Resume(App, q.fn, q.task), res))

\* the user asks for a status check; the option belongs to the connection-lost
\* UI, which showConnectionLostUI brings up together with the status polling
ManualCheck ==
    /\ Live
    /\ statusCheckInterval # Null
    /\ manualChecks < MaxManualChecks
    /\ Commit(ManualStatusCheck([App EXCEPT !.manualChecks = @ + 1], currentTaskId))

\* cleanup() with the page staying (a beforeunload that does not unload)
Cancel ==
    /\ Live
    /\ Commit(Cleanup(App))

\* the remote task reaches a terminal status
RemoteFinish ==
    /\ Live /\ remote = "running"
    /\ \E st \in {"completed", "failed"} :
          Commit([App EXCEPT !.remote = st])

\* the instants ahead at which a guard of the program changes its value
Instants ==
    {t.rem : t \in BagToSet(timers)}
    \cup (IF lastEventAge < AgeCap THEN {AgeCap - lastEventAge} ELSE {})

Advance(s, d) ==
    [s EXCEPT !.timers = [t \in {[u EXCEPT !.rem = @ - d] : u \in BagToSet(@)}
                             |-> @[[t EXCEPT !.rem = @ + d]]],
              !.lastEventAge = Min(@ + d, AgeCap),
              !.clock = Min(@ + d, Horizon)]

NextInstant == CHOOSE x \in Instants : \A y \in Instants : x <= y

\* time passes up to the next instant; a due timer runs first
Tick ==
    /\ Live
    /\ Due = {}
    /\ Instants # {}
    /\ Commit(Advance(App, NextInstant))

\* time passes, within the first Horizon ms of the session
TickWithin ==
    /\ Instants # {}
    /\ clock + NextInstant <= Horizon
    /\ Tick

Next ==
    \/ Start
    \/ OnOpen
    \/ OnMessage
    \/ OnError
    \/ WatchdogFire
    \/ ReconnectFire
    \/ RedirectFire
    \/ IntervalFire
    \/ RobustMonitoringResponse
    \/ TaskCompletionResponse
    \/ StatusCheckResponse
    \/ ManualStatusResponse
    \/ ManualCompleteResponse
    \/ Cancel
    \/ RemoteFinish
    \/ Tick

\* a session of the automatic monitor: the user asks for no status check
Spec == Init /\ [][Next]_vars

\* the first Horizon ms of a session in which the user also asks for status
\* checks.  The poll interval is armed no sooner than the watchdog falls due
\* (WatchdogDelayMs) and falls due PollIntervalMs later, beyond Horizon, so
\* IntervalFire and StatusCheckResponse have no step to take here.
NextManual ==
    \/ Start
    \/ OnOpen
    \/ OnMessage
    \/ OnError
    \/ WatchdogFire
    \/ ReconnectFire
    \/ RedirectFire
    \/ RobustMonitoringResponse
    \/ TaskCompletionResponse
    \/ ManualStatusResponse
    \/ ManualCompleteResponse
    \/ Cancel
    \/ RemoteFinish
    \/ ManualCheck
    \/ TickWithin

SpecManual == Init /\ [][NextManual]_vars

\* ----------------------------------------------------------------- claims
\* awaited fetches of function fn
InFlight(fn) ==
    LET of == {q \in BagToSet(pending) : q.fn = fn}
    IN  BagCardinality([q \in of |-> pending[q]])

Pending(kind) == {t \in BagToSet(timers) : t.kind = kind}

Outcomes == {"showSuccessModal", "showErrorModal"}

Projections ==
    {"updateStreamingProgress", "addSSEEvent", "showErrorModal", "showSuccessModal"}

\* C1: a session produces at most one terminal outcome; in particular, once a
\* channel status event with is_complete has been handled (it produces the
\* session's outcome), a completion probe of startRobustMonitoring that was in
\* flight and resolves afterwards produces no outcome.
C1_ProbeAfterTerminalEventSilent ==
    [][(terminalDelivered /\ RobustMonitoringResponse) => ui' \cap Outcomes = {}]_vars

\* a task.status event with is_complete is delivered
TerminalDelivery ==
    /\ Live
    /\ \E c \in BagToSet(sources) : \E ev \in Events(remote) :
          ev.is_complete /\ Deliver(c, ev)

\* C2: a terminating event delivered a second time issues no completion
\* request, calls neither showSuccessModal nor showErrorModal and changes no
\* monitor state.
C2_SecondDeliveryNoOp ==
    [][(terminalDelivered /\ TerminalDelivery)
          => /\ pending' = pending
             /\ ui' \cap Outcomes = {}
             /\ isTaskComplete' = isTaskComplete
             /\ reconnectAttempts' = reconnectAttempts
             /\ lastEventAge' = lastEventAge]_vars

\* C3: once isTaskComplete is true, a channel message, a channel error, a
\* reconnect timer, the watchdog timer and a poll tick change neither
\* reconnectAttempts nor lastEventTime and invoke no UI projection.
C3_NoOpOnceComplete ==
    [][(isTaskComplete
          /\ (OnMessage \/ OnError \/ ReconnectFire \/ WatchdogFire \/ IntervalFire))
          => /\ reconnectAttempts' = reconnectAttempts
             /\ lastEventAge' = lastEventAge
             /\ ui' \cap Projections = {}]_vars

\* C4: under fairness every session reaches isTaskComplete.  A session that
\* has come to rest (the remote task is terminal, no timer is pending, no
\* request is awaited, no channel is open) can make no further step of its
\* own, so the claim requires it to be terminated.
C4_RestsOnlyTerminated ==
    (Live /\ remote # "running" /\ timers = EmptyBag /\ pending = EmptyBag
          /\ sources = EmptyBag)
        => isTaskComplete

\* C5: at most one event channel of the task is open at any time.
C5_AtMostOneChannel == BagCardinality(sources) <= 1

\* C6: at most one completion probe of startRobustMonitoring is in flight.
C6_AtMostOneProbe == InFlight("startRobustMonitoring") <= 1

\* C7: when the watchdog fires and isTaskComplete is not set, the completion
\* probe of startRobustMonitoring is issued, whatever the state of the channel.
C7_WatchdogStartsFallback ==
    [][(WatchdogFire /\ ~isTaskComplete)
          => InFlight("startRobustMonitoring")' = InFlight("startRobustMonitoring") + 1]_vars

\* the watchdog has started the probe over a channel that is open and has
\* reported no error
C7_Witness ==
    /\ InFlight("startRobustMonitoring") = 1
    /\ Pending("watchdog") = {}
    /\ ui = {"updateConnectionStatus", "addSSEEvent"}
    /\ currentEventSource = Handle /\ sources # EmptyBag
    /\ reconnectAttempts = 0 /\ Pending("reconnect") = {}
    /\ ~isTaskComplete

\* handleConnectionError runs for a channel error (onerror) of a session that
\* is not complete
ChannelErrorHandled ==
    OnError /\ ~isTaskComplete /\ currentEventSource # Null

\* C8: a channel error handled with reconnectAttempts (after the increment)
\* >= 3 and less than 5000 ms since lastEventTime starts fallback monitoring
\* and schedules no reconnect.
C8_RapidFailureEscalates ==
    [][(/\ ChannelErrorHandled
        /\ reconnectAttempts + 1 >= RapidFailureThreshold
        /\ lastEventAge < RapidFailureWindowMs)
          => /\ InFlight("startRobustMonitoring")' = InFlight("startRobustMonitoring") + 1
             /\ timers' = timers
             /\ reconnectAttempts' = reconnectAttempts + 1
             /\ currentEventSource' = Null]_vars

\* the third error within the window has started the probe
C8_Witness ==
    /\ reconnectAttempts >= RapidFailureThreshold
    /\ lastEventAge < RapidFailureWindowMs
    /\ InFlight("startRobustMonitoring") >= 1
    /\ ui = {"updateConnectionStatus", "addSSEEvent"}
    /\ currentEventSource = Null
    /\ ~isTaskComplete

\* C9: without a rapid-failure trigger, the n-th channel error in a row
\* schedules a reconnect for n <= 10 (after min(2^n, 30) s) and the 11th
\* starts fallback monitoring instead.
C9_ExhaustionAfterTen ==
    [][(/\ ChannelErrorHandled
        /\ ~(reconnectAttempts + 1 >= RapidFailureThreshold
              /\ lastEventAge < RapidFailureWindowMs))
          => /\ reconnectAttempts' = reconnectAttempts + 1
             /\ IF reconnectAttempts + 1 <= MaxReconnectAttempts
                THEN /\ Count(timers, "reconnect")' = Count(timers, "reconnect") + 1
                     /\ \E t \in Pending("reconnect")' :
                           t.held /\ t.rem = WaitTime(reconnectAttempts + 1)
                     /\ pending' = pending
                ELSE /\ InFlight("startRobustMonitoring")'
                           = InFlight("startRobustMonitoring") + 1
                     /\ timers' = timers]_vars

\* the 11th error in a row has started the probe
C9_Witness ==
    /\ reconnectAttempts = MaxReconnectAttempts + 1
    /\ lastEventAge >= RapidFailureWindowMs
    /\ InFlight("startRobustMonitoring") >= 1
    /\ ui = {"updateConnectionStatus", "addSSEEvent"}
    /\ Pending("reconnect") = {}
    /\ currentEventSource = Null

\* C10: once an error event with an authentication message has been handled
\* (its redirect to /login is pending), the session is terminated:
\* isTaskComplete is true and the channel is closed.
C10_AuthErrorTerminates ==
    Pending("redirect") # {}
        => (isTaskComplete /\ currentEventSource = Null /\ sources = EmptyBag)

\* the remote task's non-success terminal status reaches the monitor in a
\* channel status event
ChannelReportsFailure ==
    /\ Live /\ remote = "failed"
    /\ \E c \in BagToSet(sources) : Deliver(c, Ev("task.status", "failed", TRUE, ""))

\* the remote task's non-success terminal status reaches the monitor in the
\* response to a periodic status poll
PollReportsFailure ==
    /\ Live /\ remote = "failed"
    /\ \E q \in Awaited("statusCheck") :
          Commit(StatusCheckResumed(Resume(App, q.fn, q.task), "failed", q.task))

\* C11: a non-success terminal status, observed through a channel status
\* event or through a periodic status poll, terminates the session with a
\* user-visible failure: isTaskComplete is true and no channel is left open.
C11_FailureTerminates ==
    [][(ChannelReportsFailure \/ PollReportsFailure)
          => /\ isTaskComplete'
             /\ "showErrorModal" \in ui'
             /\ sources' = EmptyBag]_vars

\* C12: once cleanup() has returned no timer is outstanding and no channel is
\* open, and no handler that runs afterwards produces a completion outcome
\* or a progress projection.
C12_CleanupLeavesNothing ==
    [][cancelled' => /\ timers' = EmptyBag
                     /\ sources' = EmptyBag
                     /\ (cancelled => ui' \cap Projections = {})]_vars

\* C13: a reconnect timer that was pending when cleanup() was called opens no
\* channel and fires no projection when its delay elapses.
C13_StaleReconnectIsNoOp ==
    [][(cancelled /\ ReconnectFire)
          => /\ sources' = sources
             /\ currentEventSource' = currentEventSource
             /\ ui' = {}]_vars

\* the delay of a reconnect timer has elapsed after cleanup(), and no channel
\* is open
C13_Witness ==
    /\ staleReconnect /\ cancelled
    /\ reconnectAttempts >= 1 /\ reconnectTimeout = Handle
    /\ Pending("reconnect") = {}
    /\ sources = EmptyBag /\ currentEventSource = Null
    /\ ~unloaded

\* manualStatusCheck learns that the task is not finished while the session
\* is in fallback polling
ManualReportsRunning ==
    /\ Live /\ remote = "running"
    /\ statusCheckInterval # Null /\ ~isTaskComplete
    /\ \E q \in Awaited("manualStatusCheck.status") :
          Commit(ManualStatusResumed(Resume(App, q.fn, q.task), "running", q.task))

\* C14: a manual check in fallback polling that reports the task not finished
\* sets reconnectAttempts to 0 and opens the event channel again.
C14_ManualRecoveryReopens ==
    [][ManualReportsRunning
          => /\ reconnectAttempts' = 0
             /\ currentEventSource' = Handle
             /\ BagCardinality(sources') = BagCardinality(sources) + 1
             /\ HeldIn(sources', "source") # {}]_vars

\* the manual check has reopened the channel and reset the count while the
\* reconnect timer of the last channel error is still pending
C14_Witness ==
    /\ manualChecks = 1 /\ ~isTaskComplete
    /\ reconnectAttempts = 0 /\ HeldIn(timers, "reconnect") # {}
    /\ currentEventSource = Handle
    /\ BagCardinality(sources) = 1
    /\ statusCheckInterval # Null
    /\ ui = {"addSSEEvent"}

\* the channel delivers task.status with status "completed" and is_complete
CompletedDelivery ==
    /\ Live /\ remote = "completed"
    /\ \E c \in BagToSet(sources) :
          Deliver(c, Ev("task.status", "completed", TRUE, ""))

\* the POST /monitor-task of handleTaskCompletion reports success with the
\* task completed
CompletionSucceeds ==
    /\ Live /\ remote = "completed"
    /\ \E q \in Awaited("handleTaskCompletion") :
          Commit(TaskCompletionResumed(Resume(App, q.fn, q.task), "ok"))

\* POST /monitor-task requests awaiting their response
ProbesInFlight ==
    InFlight("handleTaskCompletion") + InFlight("startRobustMonitoring")

\* C15: when the channel delivers the completed status, the completion probe
\* (POST /monitor-task) is issued once for the session, so that one probe is
\* awaited after the delivery; and when it reports success with the task
\* completed, the outcome is success.
C15_OneProbeThenSuccess ==
    [][/\ CompletedDelivery => ProbesInFlight' = 1
       /\ CompletionSucceeds => "showSuccessModal" \in ui']_vars

\* min(2^n, 30) for n = 1..10, in seconds
DelaySeconds == <<2, 4, 8, 16, 30, 30, 30, 30, 30, 30>>

\* C16: the reconnect timer that handleConnectionError schedules when
\* reconnectAttempts = n, n in 1..10, is due after exactly min(2^n, 30) s.
C16_BackoffDelays ==
    [][Count(timers, "reconnect")' > Count(timers, "reconnect")
          => /\ reconnectAttempts' \in 1..MaxReconnectAttempts
             /\ \E t \in HeldIn(timers', "reconnect") :
                   t.rem = DelaySeconds[reconnectAttempts'] * 1000]_vars

\* the reconnect after the 10th error in a row is scheduled, 30 s ahead
C16_Witness ==
    /\ reconnectAttempts = MaxReconnectAttempts
    /\ \E t \in HeldIn(timers, "reconnect") : t.rem = 30 * 1000
    /\ currentEventSource = Null
    /\ ui = {"updateConnectionStatus", "addSSEEvent"}

\* the channel delivers a payload that JSON.parse rejects
MalformedDelivery ==
    /\ Live
    /\ \E c \in BagToSet(sources) : Deliver(c, Ev("malformed", "", FALSE, ""))

\* C17: a malformed channel message leaves isTaskComplete, reconnectAttempts,
\* lastEventTime and the open channels as they are, schedules no timer,
\* starts no request and projects nothing; the channel stays open for the
\* messages that follow.
C17_MalformedDropped ==
    [][MalformedDelivery
          => /\ UNCHANGED <<isTaskComplete, reconnectAttempts, lastEventAge,
                            currentEventSource, sources, timers, pending,
                            reconnectTimeout, statusCheckInterval>>
             /\ ui' \cap Projections = {}]_vars

\* a malformed message has been dropped on an open channel, with the attempt
\* count and the age of the last event as they were
C17_Witness ==
    /\ ui = {"console.error"}
    /\ reconnectAttempts >= 1 /\ lastEventAge > 0
    /\ currentEventSource = Handle /\ HeldIn(sources, "source") # {}
    /\ ~isTaskComplete

\* the completion probe of startRobustMonitoring ends with an outcome other
\* than success with the task completed
ProbeUnsuccessful ==
    /\ Live /\ ~isTaskComplete
    /\ \E q \in Awaited("startRobustMonitoring") :
          \E res \in CompletionResults(remote) \ {"ok"} :
             Commit(RobustMonitoringResumed(Resume(App, q.fn, q.task), res, q.task))

\* C18: when the probe of startRobustMonitoring ends with any outcome other
\* than success with the task completed, the probe is not issued again and
\* periodic status polling is started.
C18_ProbeFailureStartsPolling ==
    [][ProbeUnsuccessful
          => /\ InFlight("startRobustMonitoring")' = InFlight("startRobustMonitoring") - 1
             /\ statusCheckInterval' = Handle
             /\ HeldIn(timers', "interval") # {}]_vars

\* fallback monitoring is in progress: its probe is awaited or its status
\* polling is running
InFallback ==
    InFlight("startRobustMonitoring") > 0 \/ HeldIn(timers, "interval") # {}

\* C19: while the session is in fallback monitoring no reconnect timer opens
\* a channel; the channel is reopened only by manualStatusCheck.
C19_NoReconnectInFallback ==
    [][(InFallback /\ ~isTaskComplete /\ ReconnectFire) => sources' = sources]_vars

\* C20: a reconnect timer that falls due after the session has completed, or
\* after a channel has been opened in place of the one it was scheduled for,
\* opens no channel.
C20_SupersededTimerIsNoOp ==
    [][(ReconnectFire /\ (isTaskComplete \/ sources # EmptyBag))
          => sources' = sources]_vars

\* the response to a periodic status poll reports the task completed
PollReportsCompleted ==
    /\ Live /\ remote = "completed"
    /\ \E q \in Awaited("statusCheck") :
          Commit(StatusCheckResumed(Resume(App, q.fn, q.task), "completed", q.task))

\* C21: when a periodic status poll observes a terminal status the poll
\* interval is cleared and no later tick issues a status query; for the
\* status "completed" the completion procedure (manualStatusCheck) is
\* started, for any other the failure is reported.
C21_TerminalPollStopsPolling ==
    [][/\ PollReportsCompleted
            => /\ Pending("interval")' = {}
               /\ InFlight("manualStatusCheck.status")'
                     = InFlight("manualStatusCheck.status") + 1
       /\ PollReportsFailure
            => /\ Pending("interval")' = {}
               /\ "showErrorModal" \in ui'
       /\ pollTerminal => InFlight("statusCheck")' <= InFlight("statusCheck")]_vars

\* the request of a periodic status poll fails
PollFails ==
    /\ Live
    /\ \E q \in Awaited("statusCheck") :
          Commit(StatusCheckResumed(Resume(App, q.fn, q.task), "netfail", q.task))

\* C22: a failed periodic status poll leaves the poll interval, isTaskComplete,
\* reconnectAttempts and lastEventTime as they are, produces no outcome and
\* starts nothing; the next tick of the interval issues the status query again.
C22_PollFailureSwallowed ==
    [][/\ PollFails
            => /\ UNCHANGED <<isTaskComplete, reconnectAttempts, lastEventAge,
                              timers, sources, currentEventSource,
                              statusCheckInterval, reconnectTimeout>>
               /\ BagCardinality(pending') = BagCardinality(pending) - 1
               /\ ui' \cap Projections = {}
       /\ (IntervalFire /\ ~isTaskComplete)
            => InFlight("statusCheck")' = InFlight("statusCheck") + 1]_vars

\* a poll request has failed and the interval is still running
C22_Witness ==
    /\ ui = {"console.log"}
    /\ HeldIn(timers, "interval") # {} /\ statusCheckInterval = Handle
    /\ ~isTaskComplete

\* the channel delivers the message ev
Delivery(ev) ==
    /\ Live
    /\ \E c \in BagToSet(sources) : Deliver(c, ev)

\* the messages JSON.parse accepts
Decoded == {ev \in Events(remote) : ev.type # "malformed"}

\* C23: every decoded channel message, of any type, sets lastEventTime to the
\* current time and reconnectAttempts to 0 before its type-specific handler
\* runs; only the connection error that a non-authentication error event
\* raises in a session that is not complete counts one attempt afterwards.
C23_MessageResetsCounters ==
    [][\A ev \in Decoded :
          Delivery(ev)
             => /\ lastEventAge' = 0
                /\ reconnectAttempts'
                      = IF ev.type = "error" /\ ev.message = "other" /\ ~isTaskComplete
                        THEN 1 ELSE 0]_vars

\* a progress message has reset the count that an earlier channel error left
C23_Witness ==
    /\ reconnectAttempts = 0 /\ lastEventAge = 0
    /\ reconnectTimeout = Handle /\ Pending("reconnect") = {}
    /\ currentEventSource = Handle
    /\ ui = {"updateStreamingProgress"}
    /\ ~isTaskComplete

\* C24: a channel open event leaves reconnectAttempts, lastEventTime and
\* isTaskComplete unchanged, so the attempts of a channel that opens without
\* delivering a message keep accumulating across reconnects.
C24_OpenResetsNothing ==
    [][OnOpen => /\ UNCHANGED <<reconnectAttempts, lastEventAge, isTaskComplete,
                                sources, timers, pending, currentEventSource>>
                 /\ ui' = {"updateConnectionStatus"}]_vars

\* a channel has opened after two errors in a row and the count is kept
C24_Witness ==
    /\ ui = {"updateConnectionStatus"}
    /\ reconnectAttempts >= 2
    /\ currentEventSource = Handle /\ HeldIn(sources, "source") # {}
    /\ ~isTaskComplete

\* C25: a channel error observed while isTaskComplete is true does not
\* increment reconnectAttempts, schedules no reconnect timer and starts no
\* fallback.
C25_ErrorWhenCompleteIsNoOp ==
    [][(isTaskComplete /\ OnError)
          => /\ UNCHANGED <<reconnectAttempts, timers, pending, isTaskComplete,
                            lastEventAge, currentEventSource>>
             /\ ui' \cap Projections = {}]_vars

\* a channel left open beyond completion has reported an error, and the
\* handler has ended in the TypeError of reading readyState of null
C25_Witness ==
    /\ isTaskComplete
    /\ ui = {"TypeError"}
    /\ currentEventSource = Null

\* C26: a channel error handled while the session is not complete increments
\* reconnectAttempts by exactly 1 and closes the current channel, so that no
\* channel is open afterwards; a channel is opened again only by a reconnect
\* timer or by the manual status check.
C26_ErrorClosesChannel ==
    [][/\ ChannelErrorHandled
            => /\ reconnectAttempts' = reconnectAttempts + 1
               /\ currentEventSource' = Null
               /\ sources' = EmptyBag
       /\ (Live /\ BagCardinality(sources') > BagCardinality(sources))
            => (ReconnectFire \/ ManualStatusResponse)]_vars

\* handleConnectionError runs to its end: for a channel error, or for a
\* non-authentication error event, of a session that is not complete
ConnectionErrorHandled ==
    \/ ChannelErrorHandled
    \/ ~isTaskComplete /\ Delivery(Ev("error", "", FALSE, "other"))

\* C27: an invocation of handleConnectionError that hands off to the fallback
\* monitor schedules no reconnect timer and leaves no current channel; any
\* other schedules exactly one reconnect, after the back-off delay of the
\* attempt count, and that timer reopens the channel.
C27_HandOffOrReconnect ==
    [][/\ ConnectionErrorHandled
            => /\ currentEventSource' = Null
               /\ \/ /\ InFlight("startRobustMonitoring")'
                           = InFlight("startRobustMonitoring") + 1
                     /\ timers' = timers
                  \/ /\ pending' = pending
                     /\ Count(timers, "reconnect")' = Count(timers, "reconnect") + 1
                     /\ \E t \in HeldIn(timers', "reconnect") :
                           t.rem = Min(Pow2(reconnectAttempts'), BackoffCapSeconds) * 1000
       /\ (ReconnectFire /\ ~isTaskComplete)
            => /\ currentEventSource' = Handle
               /\ BagCardinality(sources') = BagCardinality(sources) + 1]_vars

\* the reconnect scheduled for the second error in a row has reopened the
\* channel
C27_Witness ==
    /\ reconnectAttempts = 2 /\ lastEventAge >= RapidFailureWindowMs
    /\ reconnectTimeout = Handle /\ Pending("reconnect") = {}
    /\ currentEventSource = Handle /\ HeldIn(sources, "source") # {}
    /\ ui = {}
    /\ ~isTaskComplete

\* the completion requests awaited: POST /monitor-task and POST /complete-task
CompletionRequests == ProbesInFlight + InFlight("manualStatusCheck.complete")

\* C28: every manual check of the user performs the completion probe once:
\* when the check goes on after its first answer, one more completion request
\* is awaited.
C28_ManualCheckProbesOnce ==
    [][ManualStatusResponse => CompletionRequests' = CompletionRequests + 1]_vars

OtherErrorDelivery == Delivery(Ev("error", "", FALSE, "other"))

\* C30: every non-authentication error event delivered on the channel is
\* handled as a connection error after the attempt count was reset: it leaves
\* reconnectAttempts = 1, no channel open and one more reconnect timer, due in
\* 2 s, and starts no fallback probe.
C30_ErrorEventReconnects ==
    [][OtherErrorDelivery
          => /\ reconnectAttempts' = 1
             /\ currentEventSource' = Null /\ sources' = EmptyBag
             /\ Count(timers, "reconnect")' = Count(timers, "reconnect") + 1
             /\ \E t \in HeldIn(timers', "reconnect") : t.rem = Pow2(1) * 1000
             /\ pending' = pending]_vars

\* C31: when the watchdog starts fallback monitoring, the stream side stays as
\* it was: no channel is closed, no reconnect timer is cancelled, and
\* reconnectAttempts and lastEventTime keep their values, so that the stream
\* and the probe go on side by side.
C31_WatchdogLeavesStream ==
    [][(WatchdogFire /\ ~isTaskComplete)
          => /\ UNCHANGED <<sources, currentEventSource, reconnectTimeout,
                            reconnectAttempts, lastEventAge>>
             /\ Pending("reconnect")' = Pending("reconnect")
             /\ Count(timers, "reconnect")' = Count(timers, "reconnect")
             /\ InFlight("startRobustMonitoring")'
                   = InFlight("startRobustMonitoring") + 1]_vars

\* the watchdog has started the probe while a reconnect is waiting
C31_Witness ==
    /\ InFlight("startRobustMonitoring") = 1
    /\ Pending("watchdog") = {}
    /\ ui = {"updateConnectionStatus", "addSSEEvent"}
    /\ reconnectAttempts >= 1 /\ reconnectTimeout = Handle
    /\ \E t \in HeldIn(timers, "reconnect") : t.rem > 0
    /\ clock = WatchdogDelayMs
    /\ ~isTaskComplete

\* a completion request returns success: POST /monitor-task with success and
\* task_completed, or POST /complete-task with success
CompletionRequestSucceeds ==
    /\ Live /\ remote = "completed"
    /\ \/ \E q \in Awaited("handleTaskCompletion") :
             Commit(TaskCompletionResumed(Resume(App, q.fn, q.task), "ok"))
       \/ \E q \in Awaited("startRobustMonitoring") :
             Commit(RobustMonitoringResumed(Resume(App, q.fn, q.task), "ok", q.task))
       \/ \E q \in Awaited("manualStatusCheck.complete") :
             Commit(ManualCompleteResumed(Resume(App, q.fn, q.task), "ok"))

\* C32: the monitor shows the success outcome only in the step in which a
\* completion request returns success; no channel event, status poll or timer
\* produces it.
C32_SuccessOnlyFromCompletionRequest ==
    [][("showSuccessModal" \in ui' \/ successModals' # successModals)
          => /\ CompletionRequestSucceeds
             /\ CompletionRequests' = CompletionRequests - 1]_vars

\* the fallback probe has produced the success outcome of a session whose
\* channel never delivered a terminal status
C32_Witness ==
    /\ "showSuccessModal" \in ui /\ successModals = 1
    /\ isTaskComplete /\ ~terminalDelivered
    /\ clock >= WatchdogDelayMs
    /\ remote = "completed"

\* the final-result request of handleTaskCompletion is awaited: the time
\* between the terminal status event and its outcome
AwaitingFinalResult == InFlight("handleTaskCompletion") >= 1

\* C33: handling a status event with is_complete sets isTaskComplete and closes
\* the channel in the same step that issues the final-result request; while
\* that request is awaited no reconnect is scheduled, no channel is opened and
\* no fallback probe is started, whatever timer fires.
C33_NothingStartsWhileAwaitingResult ==
    [][/\ CompletedDelivery
            => /\ isTaskComplete' /\ currentEventSource' = Null
               /\ InFlight("handleTaskCompletion")' = InFlight("handleTaskCompletion") + 1
               /\ Count(timers, "reconnect")' = Count(timers, "reconnect")
               /\ InFlight("startRobustMonitoring")' = InFlight("startRobustMonitoring")
       /\ AwaitingFinalResult
            => /\ isTaskComplete
               /\ Count(timers, "reconnect")' <= Count(timers, "reconnect")
               /\ BagCardinality(sources') <= BagCardinality(sources)
               /\ InFlight("startRobustMonitoring")' <= InFlight("startRobustMonitoring")]_vars

\* the watchdog has fired while the final result was awaited, and nothing
\* was started
C33_Witness ==
    /\ AwaitingFinalResult /\ isTaskComplete
    /\ clock = WatchdogDelayMs /\ Pending("watchdog") = {}
    /\ InFlight("startRobustMonitoring") = 0
    /\ statusCheckInterval = Null /\ errorModals = 0 /\ successModals = 0
    /\ ui = {}

\* C34: periodic polling leads to at most one completion request (POST
\* /complete-task) per session, so that never two of them are awaited, even
\* when two ticks observe the terminal status.
C34_OneCompletionRequestFromPolling ==
    InFlight("manualStatusCheck.complete") <= 1

\* nothing is left that could act for the session: no channel, no timer and no
\* request
Quiescent == sources = EmptyBag /\ timers = EmptyBag /\ pending = EmptyBag

\* C35: once a poll that observed a terminal status has stopped the polling,
\* an outcome follows: a session that is neither terminated nor cancelled
\* never comes to rest, polling stopped, with no outcome shown.
C35_StoppedPollingHasOutcome ==
    (pollTerminal /\ Quiescent /\ ~isTaskComplete /\ ~cancelled)
        => successModals + errorModals >= 1

\* the ids of a second task
NewTaskIds == {"t2"}

\* the ids of the first task
PreviousTaskIds == TaskIds

\* the user submits the form again and generateReport receives the id of a new
\* task: the form is enabled again once handleTaskCompletion has run to its
\* end (setLoadingState(false)).  `remote` is the state of the new task from
\* here on.
Restart ==
    /\ Live /\ currentTaskId \in PreviousTaskIds
    /\ terminalDelivered /\ InFlight("handleTaskCompletion") = 0
    /\ \E task \in NewTaskIds :
          Commit([StartTaskStream(App, task) EXCEPT !.remote = "running"])

\* the user does nothing but submit the form: no status check is asked for and
\* the page is not left.  As in NextManual, no poll falls due within Horizon.
NextRestart ==
    \/ Start
    \/ OnOpen
    \/ OnMessage
    \/ OnError
    \/ WatchdogFire
    \/ ReconnectFire
    \/ RedirectFire
    \/ RobustMonitoringResponse
    \/ TaskCompletionResponse
    \/ RemoteFinish
    \/ TickWithin
    \/ Restart

\* the first Horizon ms of a page on which a second task is started after the
\* first one has ended
SpecRestart == Init /\ [][NextRestart]_vars

\* the channels open for the tasks of `ids`
ChannelsOf(ids) ==
    LET of == {c \in BagToSet(sources) : c.task \in ids}
    IN  BagCardinality([c \in of |-> sources[c]])

\* the requests awaited for the tasks of `ids`
RequestsOf(ids) ==
    LET of == {q \in BagToSet(pending) : q.task \in ids}
    IN  BagCardinality([q \in of |-> pending[q]])

\* C36: once startTaskStream has run for a new task, what the previous
\* session left pending (watchdog, reconnect timer, poll interval, request)
\* opens no channel and issues no request for the previous task id.
C36_LeftoversStaySilent ==
    [][(currentTaskId \in NewTaskIds)
          => /\ ChannelsOf(PreviousTaskIds)' <= ChannelsOf(PreviousTaskIds)
             /\ RequestsOf(PreviousTaskIds)' <= RequestsOf(PreviousTaskIds)]_vars

\* C37: at most one status-poll interval is registered at any time, however
\* often startPeriodicStatusCheck runs.
C37_OneInterval == Count(timers, "interval") <= 1

\* startPeriodicStatusCheck has run again, for the probe that failed after the
\* last reconnect attempt, while a query of the interval registered before is
\* still awaited
C37_Witness ==
    /\ Count(timers, "interval") = 1
    /\ \E t \in HeldIn(timers, "interval") : t.rem = PollIntervalMs
    /\ statusCheckInterval = Handle
    /\ InFlight("statusCheck") >= 1
    /\ InFlight("startRobustMonitoring") = 0
    /\ reconnectAttempts = MaxReconnectAttempts + 1
    /\ ui = {"addSSEEvent"}

\* C38: without a manual check, reconnectAttempts stays within
\* 0 .. maxReconnectAttempts + 1: after the hand-off of the 11th error no
\* channel is left whose error could count again.
C38_AttemptsBounded ==
    /\ reconnectAttempts \in 0 .. MaxReconnectAttempts + 1
    /\ (reconnectAttempts = MaxReconnectAttempts + 1)
          => (sources = EmptyBag /\ Pending("reconnect") = {})

\* the count is still 11 after the hand-off: the probe has failed and polling
\* runs
C38_Witness ==
    /\ reconnectAttempts = MaxReconnectAttempts + 1
    /\ sources = EmptyBag /\ currentEventSource = Null
    /\ InFlight("startRobustMonitoring") = 0
    /\ statusCheckInterval = Handle /\ Pending("interval") # {}
    /\ ~isTaskComplete
    /\ ui = {}

====
